---- MODULE Spec2Model ----
(***************************************************************************)
(* A model of declare_config.py: configuration documents, the dotted-path  *)
(* resolver, Setting descriptors and their resolution pipeline, the class  *)
(* decorators that register transforms, and the provider chain behind      *)
(* Configuration.load.                                                     *)
(*                                                                         *)
(* Text is a sequence of one-character strings, so that splitting a path   *)
(* on ".", the substring test of Python's `in` on a str, and the regular   *)
(* expression of enable_nested_settings are computed, not assumed.         *)
(***************************************************************************)
EXTENDS Integers, Sequences, FiniteSets, TLC

VARIABLES
    inst,         \* the Configuration instance: [cls, data]; data is _config_data
    config_path,  \* the argument of the _resolve call under study
    resolved,     \* the outcome of that call, or Pending
    descs,        \* the Setting objects made so far, by identity (index)
    classes,      \* the Configuration subclasses declared so far
    last,         \* the last Setting(...) call: its arguments and outcome
    stack,        \* the Setting.__get__ calls in progress, innermost last
    cur,          \* the attribute name of the outermost access
    outcome,      \* what the outermost access returned or raised
    log,          \* what the outermost access has done so far, in order
    accessed,     \* the names accessed on inst before the current access
    provider,     \* the provider attribute of class 1: None or a callable
    registered,   \* the locations given to configuration_provider, in order
    env,          \* the environment: variable name -> value
    files,        \* the file system: path -> parsed content of the file
    loaded        \* the last call of load: its arguments and what it did

\* ------------------------------------------------------------------ bounds
\* Depth of nesting of the documents the resolver is tried on.
MaxDepth == 2
\* Length, in characters, of the dotted paths the resolver is tried on.
MaxPathLen == 3

\* ------------------------------------------------------------------ values
\* Python values the program handles: None, str, int, dict.
None == [kind |-> "null"]
StrV(s) == [kind |-> "str", s |-> s]
IntV(n) == [kind |-> "int", n |-> n]
MapV(m) == [kind |-> "map", m |-> m]

\* The empty dict, as in `config_data or {}`.
EmptyMap == MapV(<<>>)

\* Outcomes of a call: a returned value or a raised exception.
Ok(v) == [st |-> "ok", v |-> v]
Raise(e, msg) == [st |-> "raise", exc |-> e, msg |-> msg]
Pending == [st |-> "pending"]

\* A callable object (a type, a function), by name.
Fn(name) == [kind |-> "callable", name |-> name]
callable(x) == x.kind = "callable"

\* ------------------------------------------------------------------ text
\* needle in hay, for two str values (Python's substring test).
IsSubstr(needle, hay) ==
    \E i \in 0..(Len(hay) - Len(needle)) :
        \A k \in 1..Len(needle) : hay[i + k] = needle[k]

\* str.split('.'): the pieces between the dots, empty pieces kept.
RECURSIVE split(_)
split(s) ==
    IF \A i \in 1..Len(s) : s[i] # "."
    THEN <<s>>
    ELSE LET i == CHOOSE j \in 1..Len(s) :
                      s[j] = "." /\ \A k \in 1..(j - 1) : s[k] # "."
         IN <<SubSeq(s, 1, i - 1)>> \o split(SubSeq(s, i + 1, Len(s)))

\* ------------------------------------------------------------------ _resolve
\* The loop of Configuration._resolve from the node current_path on, for the
\* path parts still to look up.  `item not in current_path` is key membership
\* on a dict, the substring test on a str, and a TypeError on an int or None;
\* `current_path[item]` on a str with a str index is a TypeError.
RECURSIVE ResolveLoop(_, _)
ResolveLoop(current_path, path_parts) ==
    IF path_parts = <<>>
    THEN Ok(current_path)
    ELSE LET item == Head(path_parts) IN
         CASE current_path.kind = "map" ->
                  IF item \notin DOMAIN current_path.m
                  THEN Ok(None)
                  ELSE ResolveLoop(current_path.m[item], Tail(path_parts))
           [] current_path.kind = "str" ->
                  IF ~IsSubstr(item, current_path.s)
                  THEN Ok(None)
                  ELSE Raise("TypeError", <<>>)
           [] OTHER -> Raise("TypeError", <<>>)

\* Configuration._resolve(config_path) on a container holding config_data.
Resolve(config_data, path) == ResolveLoop(config_data, split(path))

\* ------------------------------------------------------------------ inputs
Keys == {<<"a">>, <<"b">>}
Leaves == {StrV(<<>>), StrV(<<"a", "b">>), IntV(5), None}

\* Every dict over Keys whose values come from the set `below`.
MapsOver(below) == {MapV(f) : f \in UNION {[D -> below] : D \in SUBSET Keys}}

RECURSIVE NodesUpTo(_)
NodesUpTo(d) == IF d = 0 THEN Leaves
                ELSE Leaves \cup MapsOver(NodesUpTo(d - 1))

\* The documents a container may hold: dicts nested MaxDepth deep.
Documents == MapsOver(NodesUpTo(MaxDepth - 1))

PathChars == {"a", "b", "."}
Paths == UNION {[1..n -> PathChars] : n \in 0..MaxPathLen}

resolveVars == <<config_path, resolved>>
schemaVars == <<descs, classes, last>>
accessVars == <<stack, cur, outcome, log, accessed>>
loadVars == <<provider, registered, env, files, loaded>>
vars == <<inst, resolveVars, schemaVars, accessVars, loadVars>>

\* No provider, an empty environment and file system, no load made.
NoLoading ==
    /\ provider = None /\ registered = <<>>
    /\ env = <<>> /\ files = <<>> /\ loaded = Pending

NoAccess == <<>>

NoInstance == [cls |-> 0, data |-> EmptyMap]

\* ------------------------------------------------------------------ resolver
InitResolve ==
    /\ inst \in {[cls |-> 0, data |-> d] : d \in Documents}
    /\ config_path \in Paths
    /\ resolved = Pending
    /\ descs = <<>>
    /\ classes = <<>>
    /\ last = Pending
    /\ stack = <<>> /\ cur = NoAccess /\ outcome = Pending
    /\ log = <<>> /\ accessed = {}
    /\ NoLoading

\* One call of inst._resolve(config_path).
CallResolve ==
    /\ resolved = Pending
    /\ resolved' = Resolve(inst.data, config_path)
    /\ UNCHANGED <<loadVars, inst, config_path, schemaVars, accessVars>>

NextResolve == CallResolve

SpecResolve == InitResolve /\ [][NextResolve]_vars

\* The node the path denotes: follow each segment while it is a key of the
\* mapping reached so far, None at the first segment that is not.
RECURSIVE Follow(_, _)
Follow(node, parts) ==
    IF parts = <<>> THEN node
    ELSE IF node.kind = "map" /\ Head(parts) \in DOMAIN node.m
         THEN Follow(node.m[Head(parts)], Tail(parts))
         ELSE None

\* C5: for every document and dotted path the resolver returns the node
\* reached by following all segments, and None at the first missing segment,
\* never raising, whatever node the walk has reached.
C5_ResolverTotal ==
    resolved # Pending => resolved = Ok(Follow(inst.data, split(config_path)))

\* ------------------------------------------------------------------ Setting
\* Mutant of SettingInit: `or` for `and` in the test of the two arguments.
SettingInitEitherMissing(cp, df, st) ==
    IF cp = None \/ df = None
    THEN Raise("ValueError", <<"must provide config_path or default">>)
    ELSE IF ~callable(st)
    THEN Raise("ValueError", <<"must provide callable for setting_type">>)
    ELSE Ok([config_path |-> cp, default |-> df, setting_type |-> st,
             preprocessors |-> <<>>, postprocessors |-> <<>>])

\* Setting.__init__(config_path, default, setting_type): the new object, or
\* the ValueError it raises.
SettingInit(cp, df, st) ==
    IF cp = None /\ df = None
    THEN Raise("ValueError", <<"must provide config_path or default">>)
    ELSE IF ~callable(st)
    THEN Raise("ValueError", <<"must provide callable for setting_type">>)
    ELSE Ok([config_path |-> cp, default |-> df, setting_type |-> st,
             preprocessors |-> <<>>, postprocessors |-> <<>>])

\* Number of Setting objects a run constructs.
MaxSettings == 2

\* Arguments Setting(...) is tried with.
PathArgs == {None, StrV(<<"x">>), StrV(<<"a", ".", "b">>)}
DefaultArgs == {None, StrV(<<"v">>), IntV(0)}
TypeArgs == {Fn("str"), Fn("int"), StrV(<<"n", "o">>)}

\* A call Setting(cp, df, st) anywhere in the program.
NewSetting(cp, df, st) ==
    /\ Len(descs) < MaxSettings
    /\ LET r == SettingInit(cp, df, st) IN
       /\ last' = [args |-> <<cp, df, st>>, out |-> r]
       /\ descs' = IF r.st = "ok" THEN Append(descs, r.v) ELSE descs
    /\ UNCHANGED <<loadVars, inst, resolveVars, classes, accessVars>>

InitSetting ==
    /\ inst = NoInstance
    /\ config_path = <<>>
    /\ resolved = Pending
    /\ descs = <<>>
    /\ classes = <<>>
    /\ last = Pending
    /\ stack = <<>> /\ cur = NoAccess /\ outcome = Pending
    /\ log = <<>> /\ accessed = {}
    /\ NoLoading

NextSetting ==
    \E cp \in PathArgs, df \in DefaultArgs, st \in TypeArgs :
        NewSetting(cp, df, st)

SpecSetting == InitSetting /\ [][NextSetting]_vars

\* C6 as stated: construction succeeds exactly when exactly one of
\* config_path and default is non-null and setting_type is callable.
C6_ExactlyOne ==
    last # Pending =>
        (last.out.st = "ok" <=>
            /\ (last.args[1] = None) # (last.args[2] = None)
            /\ callable(last.args[3]))

\* C6, amended: construction succeeds exactly when at least one of
\* config_path and default is non-null and setting_type is callable, and
\* every Setting object that exists satisfies this.
C6_AtLeastOne ==
    /\ last # Pending =>
        (last.out.st = "ok" <=>
            /\ (last.args[1] # None \/ last.args[2] # None)
            /\ callable(last.args[3]))
    /\ \A i \in 1..Len(descs) :
        /\ descs[i].config_path # None \/ descs[i].default # None
        /\ callable(descs[i].setting_type)

\* A Setting constructed with both a config_path and a default exists.
C6_Witness ==
    /\ last # Pending
    /\ last.out.st = "ok"
    /\ last.args[1] # None /\ last.args[2] # None
    /\ descs # <<>> /\ descs[Len(descs)] = last.out.v

\* ------------------------------------------------------------------ classes
\* The attribute names classes use, in the sorted order dir() lists them.
AttrNames == << <<"a">>, <<"b">>, <<"c">> >>

\* getattr(cls, name) for a Setting attribute, along the base classes: the
\* Setting object's identity, 0 when no class on the way binds the name.
RECURSIVE ClassAttr(_, _, _)
ClassAttr(cl, c, n) ==
    IF c = 0 THEN 0
    ELSE IF n \in DOMAIN cl[c].attrs THEN cl[c].attrs[n]
    ELSE ClassAttr(cl, cl[c].base, n)

\* Configuration.setting_definitions: one Setting per attribute name of
\* dir(cls) bound to one, own or inherited.
RECURSIVE SettingDefsFrom(_, _, _)
SettingDefsFrom(cl, c, i) ==
    IF i > Len(AttrNames) THEN <<>>
    ELSE (IF ClassAttr(cl, c, AttrNames[i]) # 0
          THEN <<ClassAttr(cl, c, AttrNames[i])>> ELSE <<>>)
         \o SettingDefsFrom(cl, c, i + 1)

setting_definitions(cl, c) == SettingDefsFrom(cl, c, 1)

\* The loops of the class decorators: Setting.register_preprocessor and
\* Setting.register_postprocessor called on each yielded Setting in turn.
RECURSIVE RegisterPreEach(_, _, _)
RegisterPreEach(ds, ids, p) ==
    IF ids = <<>> THEN ds
    ELSE RegisterPreEach(
            [ds EXCEPT ![Head(ids)].preprocessors = Append(@, p)], Tail(ids), p)

RECURSIVE RegisterPostEach(_, _, _)
RegisterPostEach(ds, ids, p) ==
    IF ids = <<>> THEN ds
    ELSE RegisterPostEach(
            [ds EXCEPT ![Head(ids)].postprocessors = Append(@, p)], Tail(ids), p)

\* Number of classes a run declares, and of transforms a Setting is given
\* before the run stops decorating its class.
MaxClasses == 2
MaxProcs == 2

Idle == stack = <<>>

\* The program moves on from the access it last made: its result is no
\* longer under observation, only the fact that the name was accessed.
MoveOn ==
    /\ cur' = NoAccess /\ outcome' = Pending /\ log' = <<>>
    /\ accessed' = IF cur = NoAccess THEN accessed ELSE accessed \cup {cur}
    /\ UNCHANGED stack

\* class C(base): <name> = <Setting object>, ... for the names of body.
DeclareClass(base, body) ==
    /\ Idle
    /\ Len(classes) < MaxClasses
    /\ classes' = Append(classes, [base |-> base, attrs |-> body])
    /\ MoveOn
    /\ UNCHANGED <<loadVars, inst, resolveVars, descs, last>>

\* register_preprocessor(p) applied to class c.
register_preprocessor(c, p) ==
    /\ Idle
    /\ c \in 1..Len(classes)
    /\ LET ids == setting_definitions(classes, c) IN
       /\ \A k \in 1..Len(ids) : Len(descs[ids[k]].preprocessors) < MaxProcs
       /\ descs' = RegisterPreEach(descs, ids, p)
    /\ MoveOn
    /\ UNCHANGED <<loadVars, inst, resolveVars, classes, last>>

\* register_postprocessor(p) applied to class c.
register_postprocessor(c, p) ==
    /\ Idle
    /\ c \in 1..Len(classes)
    /\ LET ids == setting_definitions(classes, c) IN
       /\ \A k \in 1..Len(ids) : Len(descs[ids[k]].postprocessors) < MaxProcs
       /\ descs' = RegisterPostEach(descs, ids, p)
    /\ MoveOn
    /\ UNCHANGED <<loadVars, inst, resolveVars, classes, last>>

\* The two built-in decorators register one fixed transform each.
enable_expanduser(c) == register_postprocessor(c, "expanduser")
enable_nested_settings(c) == register_preprocessor(c, "nested")

\* cls(config_data): Configuration.__init__; config_data may be None.
Construct(c, config_data) ==
    /\ Idle
    /\ c \in 1..Len(classes)
    /\ inst' = [cls |-> c,
                data |-> IF config_data = None \/ config_data = EmptyMap
                         THEN EmptyMap ELSE config_data]
    /\ cur' = NoAccess /\ outcome' = Pending /\ log' = <<>> /\ accessed' = {}
    /\ UNCHANGED <<loadVars, resolveVars, schemaVars, stack>>

\* ------------------------------------------------------------------ str, int
PathV(s) == [kind |-> "path", s |-> s]

DigitChars == <<"0", "1", "2", "3", "4", "5", "6", "7", "8", "9">>
IsDigit(ch) == \E k \in 1..10 : DigitChars[k] = ch
DigitValue(ch) == (CHOOSE k \in 1..10 : DigitChars[k] = ch) - 1

\* The decimal text of a natural number.
RECURSIVE Digits(_)
Digits(n) == IF n < 10 THEN <<DigitChars[n + 1]>>
             ELSE Digits(n \div 10) \o <<DigitChars[(n % 10) + 1]>>

\* The number a text of decimal digits denotes.
RECURSIVE ParseDigits(_)
ParseDigits(s) == IF s = <<>> THEN 0
                  ELSE 10 * ParseDigits(SubSeq(s, 1, Len(s) - 1))
                       + DigitValue(s[Len(s)])

\* str(v), as a text.
ToStr(v) ==
    CASE v.kind = "str" -> v.s
      [] v.kind = "int" -> Digits(v.n)
      [] v.kind = "path" -> v.s
      [] v.kind = "null" -> <<"N", "o", "n", "e">>

\* setting_type(v) for the types str, int and pathlib.Path.
Coerce(st, v) ==
    CASE st.name = "str" -> Ok(StrV(ToStr(v)))
      [] st.name = "int" ->
            IF v.kind = "int" THEN Ok(v)
            ELSE IF v.kind # "str" THEN Raise("TypeError", <<>>)
            ELSE IF v.s # <<>> /\ \A k \in 1..Len(v.s) : IsDigit(v.s[k])
            THEN Ok(IntV(ParseDigits(v.s)))
            ELSE Raise("ValueError", <<"invalid literal for int()">>)
      [] st.name = "Path" ->
            IF v.kind \in {"str", "path"} THEN Ok(PathV(v.s))
            ELSE Raise("TypeError", <<>>)

\* The home directory that expanduser puts for a leading "~".
Home == <<"/", "h">>

\* The postprocessor of enable_expanduser.
expanduser(setting_value) ==
    IF setting_value.kind = "path"
    THEN IF setting_value.s = <<"~">>
            \/ (Len(setting_value.s) > 1 /\ SubSeq(setting_value.s, 1, 2) = <<"~", "/">>)
         THEN PathV(Home \o Tail(setting_value.s))
         ELSE setting_value
    ELSE setting_value

\* A transform other than nested substitution, applied to a value: the
\* built-in expanduser, or one of two user functions that append a mark to
\* the text of the value (lambda settings, v: str(v) + "1", and + "2").
ApplyTransform(p, v) ==
    CASE p = "expanduser" -> expanduser(v)
      [] p = "app1" -> StrV(ToStr(v) \o <<"1">>)
      [] p = "app2" -> StrV(ToStr(v) \o <<"2">>)

\* ------------------------------------------------------------------ re.sub
\* \w of the regular expression, over the characters the model uses.
WordChars == {"a", "b", "c", "f", "o", "v", "x", "z", "_",
              "0", "1", "2", "3", "4", "5", "6", "7", "8", "9"}

\* The end of the longest run of word characters that starts at i (i - 1
\* when t[i] is not one).
RECURSIVE WordRunEnd(_, _)
WordRunEnd(t, i) == IF i <= Len(t) /\ t[i] \in WordChars
                    THEN WordRunEnd(t, i + 1) ELSE i - 1

\* \$\{(\w+)\} matches at position i of t.
MatchAt(t, i) ==
    /\ i + 3 <= Len(t)
    /\ t[i] = "$" /\ t[i + 1] = "{"
    /\ WordRunEnd(t, i + 2) >= i + 2
    /\ WordRunEnd(t, i + 2) < Len(t)
    /\ t[WordRunEnd(t, i + 2) + 1] = "}"

HasMatch(t) == \E i \in 1..Len(t) : MatchAt(t, i)

\* The leftmost match in t: the text before it, the captured name, the text
\* after it.
FirstMatch(t) ==
    LET i == CHOOSE j \in 1..Len(t) :
                 MatchAt(t, j) /\ \A k \in 1..(j - 1) : ~MatchAt(t, k)
        e == WordRunEnd(t, i + 2)
    IN [before |-> SubSeq(t, 1, i - 1),
        name |-> SubSeq(t, i + 2, e),
        after |-> SubSeq(t, e + 2, Len(t))]

\* ------------------------------------------------------------------ __get__
\* Depth of nested Setting.__get__ calls at which the interpreter raises
\* RecursionError.
RecursionLimit == 4

\* The lookup of Setting._get_configured_value: instance._resolve(config_path)
\* when there is a config_path, None otherwise.
LookUp(D, data) ==
    IF D.config_path # None THEN Resolve(data, D.config_path.s) ELSE Ok(None)

\* Setting._get_configured_value(instance).
GetConfiguredValue(D, data) ==
    LET looked == LookUp(D, data) IN
    IF looked.st = "raise" THEN looked
    ELSE IF looked.v = None
    THEN IF D.default = None
         THEN Raise("ValueError",
                    <<"missing required config ">> \o D.config_path.s)
         ELSE Ok(D.default)
    ELSE looked

\* A call of Setting.__get__ that has just begun.
NewFrame(d) == [d |-> d, pc |-> "get", i |-> 1, val |-> None,
                out |-> <<>>, rest |-> <<>>]

Top == stack[Len(stack)]
TopDesc == descs[Top.d]
Event(ev, d, p) == [ev |-> ev, d |-> d, p |-> p]

\* An exception leaves every call in progress: nothing catches it.
Unwind(exc) ==
    /\ stack' = <<>>
    /\ outcome' = exc
    /\ log' = Append(log, Event("raise", Top.d, exc.exc))

SetTop(f) == stack' = [stack EXCEPT ![Len(stack)] = f]

\* Mutant of PreprocessorAt: the loop runs over the list from its end.
PreprocessorAtReversed(D, i) == D.preprocessors[Len(D.preprocessors) + 1 - i]

\* The preprocessor, and the postprocessor, that the loops of
\* _process_configured_value apply i-th.
PreprocessorAt(D, i) == D.preprocessors[i]
PostprocessorAt(D, i) == D.postprocessors[i]

\* inst.<name>: attribute access on the instance begins.
Access(n) ==
    /\ Idle
    /\ inst.cls # 0
    /\ ClassAttr(classes, inst.cls, n) # 0
    /\ stack' = <<NewFrame(ClassAttr(classes, inst.cls, n))>>
    /\ cur' = n
    /\ outcome' = Pending
    /\ log' = <<>>
    /\ accessed' = IF cur = NoAccess THEN accessed ELSE accessed \cup {cur}
    /\ UNCHANGED <<loadVars, inst, resolveVars, schemaVars>>

\* configured_value = self._get_configured_value(instance)
GetValue ==
    /\ ~Idle /\ Top.pc = "get"
    /\ LET r == GetConfiguredValue(TopDesc, inst.data) IN
       IF r.st = "raise" THEN Unwind(r)
       ELSE /\ SetTop([Top EXCEPT !.pc = "pre", !.val = r.v])
            /\ log' = Append(log,
                  Event(IF LookUp(TopDesc, inst.data).v = None
                        THEN "default" ELSE "document", Top.d, ""))
            /\ outcome' = outcome
    /\ UNCHANGED <<loadVars, inst, resolveVars, schemaVars, cur, accessed>>

\* result = preprocessor(instance, result), for a preprocessor that is not
\* the nested substitution.
Preprocess ==
    /\ ~Idle /\ Top.pc = "pre"
    /\ Top.i <= Len(TopDesc.preprocessors)
    /\ PreprocessorAt(TopDesc, Top.i) # "nested"
    /\ SetTop([Top EXCEPT !.val = ApplyTransform(PreprocessorAt(TopDesc, Top.i), @),
                          !.i = @ + 1])
    /\ log' = Append(log, Event("pre", Top.d, PreprocessorAt(TopDesc, Top.i)))
    /\ UNCHANGED <<loadVars, inst, resolveVars, schemaVars, cur, outcome, accessed>>

\* The nested substitution begins: re.sub scans str(setting_value).
BeginSubstitute ==
    /\ ~Idle /\ Top.pc = "pre"
    /\ Top.i <= Len(TopDesc.preprocessors)
    /\ PreprocessorAt(TopDesc, Top.i) = "nested"
    /\ SetTop([Top EXCEPT !.pc = "sub", !.out = <<>>, !.rest = ToStr(Top.val)])
    /\ UNCHANGED <<loadVars, inst, resolveVars, schemaVars, cur, outcome, log, accessed>>

\* Mutant of EnterSibling: a sibling already being resolved is reported as a
\* circular reference.
EnterSiblingDetectingCycles(stk, d) ==
    IF d = 0 THEN Raise("AttributeError", <<>>)
    ELSE IF \E k \in 1..Len(stk) : stk[k].d = d
    THEN Raise("ValueError", <<"circular setting reference">>)
    ELSE IF Len(stk) >= RecursionLimit THEN Raise("RecursionError", <<>>)
    ELSE Ok(NewFrame(d))

\* getattr(settings, name) inside the substitution, d being the Setting the
\* name is bound to (0: none): the call of its __get__, or the error raised.
EnterSibling(stk, d) ==
    IF d = 0 THEN Raise("AttributeError", <<>>)
    ELSE IF Len(stk) >= RecursionLimit THEN Raise("RecursionError", <<>>)
    ELSE Ok(NewFrame(d))

\* Mutant of NextPlaceholder: the pattern misses a placeholder that begins
\* the text.
NextPlaceholderAfterFirstChar(t) ==
    IF t # <<>> /\ HasMatch(Tail(t))
    THEN [found |-> TRUE,
          before |-> <<Head(t)>> \o FirstMatch(Tail(t)).before,
          name |-> FirstMatch(Tail(t)).name,
          after |-> FirstMatch(Tail(t)).after]
    ELSE [found |-> FALSE, before |-> t, name |-> <<>>, after |-> <<>>]

\* What re.sub finds next in the text left to scan.
NextPlaceholder(t) ==
    IF HasMatch(t)
    THEN [found |-> TRUE, before |-> FirstMatch(t).before,
          name |-> FirstMatch(t).name, after |-> FirstMatch(t).after]
    ELSE [found |-> FALSE, before |-> t, name |-> <<>>, after |-> <<>>]

\* re.sub reaches the next ${name} and calls getattr(settings, name).
Substitute ==
    /\ ~Idle /\ Top.pc = "sub"
    /\ LET m == NextPlaceholder(Top.rest) IN
       /\ m.found
       /\ LET d2 == ClassAttr(classes, inst.cls, m.name)
              r == EnterSibling(stack, d2)
          IN IF r.st = "raise" THEN Unwind(r)
             ELSE /\ stack' = Append(
                        [stack EXCEPT ![Len(stack)] =
                            [Top EXCEPT !.out = @ \o m.before, !.rest = m.after]],
                        r.v)
                  /\ log' = Append(log, Event("enter", d2, ""))
                  /\ outcome' = outcome
    /\ UNCHANGED <<loadVars, inst, resolveVars, schemaVars, cur, accessed>>

\* re.sub finds no further placeholder and returns the substituted text.
EndSubstitute ==
    /\ ~Idle /\ Top.pc = "sub"
    /\ ~NextPlaceholder(Top.rest).found
    /\ SetTop([Top EXCEPT !.pc = "pre", !.i = @ + 1,
                          !.val = StrV(Top.out \o Top.rest),
                          !.out = <<>>, !.rest = <<>>])
    /\ log' = Append(log, Event("pre", Top.d, "nested"))
    /\ UNCHANGED <<loadVars, inst, resolveVars, schemaVars, cur, outcome, accessed>>

\* result = self.setting_type(result), after the last preprocessor.
CoerceValue ==
    /\ ~Idle /\ Top.pc = "pre"
    /\ Top.i > Len(TopDesc.preprocessors)
    /\ LET r == Coerce(TopDesc.setting_type, Top.val) IN
       IF r.st = "raise" THEN Unwind(r)
       ELSE /\ SetTop([Top EXCEPT !.pc = "post", !.i = 1, !.val = r.v])
            /\ log' = Append(log, Event("type", Top.d, TopDesc.setting_type.name))
            /\ outcome' = outcome
    /\ UNCHANGED <<loadVars, inst, resolveVars, schemaVars, cur, accessed>>

\* result = postprocessor(instance, result)
Postprocess ==
    /\ ~Idle /\ Top.pc = "post"
    /\ Top.i <= Len(TopDesc.postprocessors)
    /\ SetTop([Top EXCEPT !.val = ApplyTransform(PostprocessorAt(TopDesc, Top.i), @),
                          !.i = @ + 1])
    /\ log' = Append(log, Event("post", Top.d, PostprocessorAt(TopDesc, Top.i)))
    /\ UNCHANGED <<loadVars, inst, resolveVars, schemaVars, cur, outcome, accessed>>

\* return result, from the outermost __get__: the access is over.
Return ==
    /\ Len(stack) = 1 /\ Top.pc = "post"
    /\ Top.i > Len(TopDesc.postprocessors)
    /\ stack' = <<>>
    /\ outcome' = Ok(Top.val)
    /\ log' = Append(log, Event("return", Top.d, ""))
    /\ UNCHANGED <<loadVars, inst, resolveVars, schemaVars, cur, accessed>>

\* return result, from a nested __get__: str() of it replaces the match.
ReturnToSubstitute ==
    /\ Len(stack) > 1 /\ Top.pc = "post"
    /\ Top.i > Len(TopDesc.postprocessors)
    /\ stack' = [SubSeq(stack, 1, Len(stack) - 1) EXCEPT
                    ![Len(stack) - 1].out = @ \o ToStr(Top.val)]
    /\ log' = Append(log, Event("return", Top.d, ""))
    /\ UNCHANGED <<loadVars, inst, resolveVars, schemaVars, cur, outcome, accessed>>

\* One step of the access in progress.
Step ==
    \/ GetValue
    \/ Preprocess
    \/ BeginSubstitute
    \/ Substitute
    \/ EndSubstitute
    \/ CoerceValue
    \/ Postprocess
    \/ Return
    \/ ReturnToSubstitute

\* ------------------------------------------------------------------ access
\* The documents an instance is constructed on: empty, a string at "x", the
\* empty string at "x", a YAML null at "x", a string at "a.b", and a string
\* at "a" that contains "b".
AccessDocs ==
    { EmptyMap,
      MapV(<<"x">> :> StrV(<<"5">>)),
      MapV(<<"x">> :> StrV(<<>>)),
      MapV(<<"x">> :> None),
      MapV(<<"a">> :> MapV(<<"b">> :> StrV(<<"5">>))),
      MapV(<<"a">> :> StrV(<<"x", "b", "x">>)) }

\* The Setting objects the class under study may declare as attribute a.
AccessSettings ==
    { SettingInit(cp, df, st).v :
        <<cp, df, st>> \in
            { t \in {None, StrV(<<"x">>), StrV(<<"a", ".", "b">>)}
                    \X {None, StrV(<<"7">>)}
                    \X {Fn("str"), Fn("int")} :
                SettingInit(t[1], t[2], t[3]).st = "ok" } }

\* class C(Configuration): a = <one of AccessSettings>; b = Setting("x", "w")
InitAccess ==
    /\ inst = NoInstance
    /\ config_path = <<>>
    /\ resolved = Pending
    /\ \E A \in AccessSettings :
         descs = <<A, SettingInit(StrV(<<"x">>), StrV(<<"w">>), Fn("str")).v>>
    /\ classes = <<[base |-> 0, attrs |-> (<<"a">> :> 1 @@ <<"b">> :> 2)]>>
    /\ last = Pending
    /\ stack = <<>> /\ cur = NoAccess /\ outcome = Pending
    /\ log = <<>> /\ accessed = {}
    /\ NoLoading

UserTransforms == {"app1", "app2"}

NextAccess ==
    \/ \E doc \in AccessDocs \cup {None} : Construct(1, doc)
    \/ \E p \in UserTransforms : register_preprocessor(1, p)
    \/ \E p \in UserTransforms : register_postprocessor(1, p)
    \/ \E n \in {<<"a">>, <<"b">>} : Access(n)
    \/ GetValue
    \/ Preprocess
    \/ CoerceValue
    \/ Postprocess
    \/ Return

Spec == InitAccess /\ [][NextAccess]_vars

\* The Setting the outermost access resolves.
CurDesc == descs[ClassAttr(classes, inst.cls, cur)]

\* The document holds a value at the path: following the path reaches a node
\* that is not null.
InDocument(data, path) == Follow(data, split(path)) # None

\* The working value: the document's value at config_path when it holds
\* one, the default otherwise.
WorkingValue(D, data) ==
    IF D.config_path # None /\ InDocument(data, D.config_path.s)
    THEN Follow(data, split(D.config_path.s))
    ELSE D.default

\* f_k(... f_1(v)) for the transforms f_1 .. f_k of ps.
RECURSIVE ApplyAll(_, _)
ApplyAll(ps, v) ==
    IF ps = <<>> THEN v ELSE ApplyAll(Tail(ps), ApplyTransform(Head(ps), v))

\* post_n(... post_1(setting_type(pre_m(... pre_1(v)))))
Pipeline(D, v) ==
    ApplyAll(D.postprocessors,
             Coerce(D.setting_type, ApplyAll(D.preprocessors, v)).v)

\* What the access does, in order, when nothing raises.
PipelineLog(d, D, src) ==
    <<Event(src, d, "")>>
    \o [k \in 1..Len(D.preprocessors) |-> Event("pre", d, D.preprocessors[k])]
    \o <<Event("type", d, D.setting_type.name)>>
    \o [k \in 1..Len(D.postprocessors) |-> Event("post", d, D.postprocessors[k])]
    \o <<Event("return", d, "")>>

\* C1: an access that returns, returns the postprocessors, in registration
\* order, of the coercion of the preprocessors, in registration order, of the
\* working value; every preprocessor runs before the coercion and every
\* postprocessor after it; whatever was accessed on the instance before.
C1_PipelineOrder ==
    outcome.st = "ok" =>
        /\ outcome.v = Pipeline(CurDesc, WorkingValue(CurDesc, inst.data))
        /\ log = PipelineLog(ClassAttr(classes, inst.cls, cur), CurDesc,
                    IF CurDesc.config_path # None
                       /\ InDocument(inst.data, CurDesc.config_path.s)
                    THEN "document" ELSE "default")

\* An access of a returned with two distinct preprocessors and two distinct
\* postprocessors registered, a document value in use, after b was accessed.
C1_Witness ==
    /\ outcome.st = "ok" /\ cur = <<"a">>
    /\ <<"b">> \in accessed
    /\ log[1].ev = "document"
    /\ CurDesc.preprocessors = <<"app2", "app1">>
    /\ CurDesc.postprocessors = <<"app1", "app2">>
    /\ CurDesc.setting_type = Fn("int")

\* C2: for a setting with both a config_path and a default, the default is
\* the working value exactly when the path is absent from the document.
C2_DefaultIffAbsent ==
    (cur # NoAccess /\ log # <<>>
        /\ CurDesc.config_path # None /\ CurDesc.default # None) =>
        (log[1].ev = "default" <=> ~InDocument(inst.data, CurDesc.config_path.s))

\* C7: an access to a setting without default whose path does not resolve
\* raises the missing-required error naming the path, and runs no
\* preprocessor, coercion or postprocessor; on a document that holds the
\* path the value is obtained.
C7_MissingRequired ==
    (cur # NoAccess /\ log # <<>> /\ CurDesc.default = None) =>
        IF InDocument(inst.data, CurDesc.config_path.s)
        THEN log[1].ev = "document"
        ELSE /\ outcome = Raise("ValueError",
                    <<"missing required config ">> \o CurDesc.config_path.s)
             /\ Len(log) = 1

\* ------------------------------------------------------------------ schema
InitSchema ==
    /\ inst = NoInstance
    /\ config_path = <<>>
    /\ resolved = Pending
    /\ descs = <<>>
    /\ classes = <<>>
    /\ last = Pending
    /\ stack = <<>> /\ cur = NoAccess /\ outcome = Pending
    /\ log = <<>> /\ accessed = {}
    /\ NoLoading

\* The class bodies tried: the names a and b, each bound to a Setting object
\* that exists (two names may be bound to the same object).
ClassBodies ==
    UNION {[N -> 1..Len(descs)] : N \in (SUBSET {<<"a">>, <<"b">>}) \ {{}}}

NextSchema ==
    \/ NewSetting(StrV(<<"x">>), None, Fn("str"))
    \/ \E base \in 0..Len(classes), body \in ClassBodies : DeclareClass(base, body)
    \/ \E c \in 1..Len(classes) : register_preprocessor(c, "app1")
    \/ \E c \in 1..Len(classes) : register_postprocessor(c, "app2")
    \/ \E c \in 1..Len(classes) : enable_expanduser(c)
    \/ \E c \in 1..Len(classes) : enable_nested_settings(c)

SpecSchema == InitSchema /\ [][NextSchema]_vars

\* The distinct Setting objects that are attributes of class c.
SettingsOf(cl, c) ==
    {ClassAttr(cl, c, AttrNames[k]) : k \in 1..Len(AttrNames)} \ {0}

Transforms == {"app1", "app2", "expanduser", "nested"}

\* C9: a transform decorator applied to class c appends the transform
\* exactly once to each distinct Setting that is an attribute of c, own or
\* inherited, and changes no other Setting.
C9_OncePerSetting ==
    [][\A c \in 1..Len(classes), p \in Transforms :
         /\ register_preprocessor(c, p) =>
              \A d \in 1..Len(descs) :
                 descs'[d] =
                    IF d \in SettingsOf(classes, c)
                    THEN [descs[d] EXCEPT !.preprocessors = Append(@, p)]
                    ELSE descs[d]
         /\ register_postprocessor(c, p) =>
              \A d \in 1..Len(descs) :
                 descs'[d] =
                    IF d \in SettingsOf(classes, c)
                    THEN [descs[d] EXCEPT !.postprocessors = Append(@, p)]
                    ELSE descs[d]]_vars

\* ------------------------------------------------------------------ nested
\* The defaults of the three settings of the class under study, each with
\* its own name as config_path and setting_type str.
DefaultsA == { IntV(5), StrV(<<"$", "{", "a", "}">>), None }
DefaultsB == { StrV(<<"$", "{", "a", "}", "r">>),
               StrV(<<"$", "{", "c", "}", "-", "$", "{", "a", "}">>) }
DefaultsC == { StrV(<<"$", "{", "b", "}", "z">>),
               StrV(<<"$", "{", "}", "{", "b", "}", "$", "{", "z", "}">>) }

\* The documents an instance of that class is constructed on.
NestedDocs ==
    { EmptyMap,
      MapV(<<"a">> :> StrV(<<"$", "{", "c", "}">>)),
      MapV(<<"a">> :> StrV(<<"v">>)) }

InitNested ==
    /\ inst = NoInstance
    /\ config_path = <<>>
    /\ resolved = Pending
    /\ \E da \in DefaultsA, db \in DefaultsB, dc \in DefaultsC :
         descs = << SettingInit(StrV(<<"a">>), da, Fn("str")).v,
                    SettingInit(StrV(<<"b">>), db, Fn("str")).v,
                    SettingInit(StrV(<<"c">>), dc, Fn("str")).v >>
    /\ classes = <<[base |-> 0,
                    attrs |-> (<<"a">> :> 1 @@ <<"b">> :> 2 @@ <<"c">> :> 3)]>>
    /\ last = Pending
    /\ stack = <<>> /\ cur = NoAccess /\ outcome = Pending
    /\ log = <<>> /\ accessed = {}
    /\ NoLoading

StepNested ==
    \/ GetValue
    \/ BeginSubstitute
    \/ Substitute
    \/ EndSubstitute
    \/ CoerceValue
    \/ Postprocess
    \/ Return
    \/ ReturnToSubstitute

NextNested ==
    \/ \E doc \in NestedDocs \cup {None} : Construct(1, doc)
    \/ enable_nested_settings(1)
    \/ register_postprocessor(1, "app2")
    \/ \E n \in {<<"a">>, <<"b">>, <<"c">>} : Access(n)
    \/ StepNested

SpecNested == InitNested /\ [][NextNested]_vars

\* The same class with no postprocessor registered.
StepCycle ==
    \/ GetValue
    \/ BeginSubstitute
    \/ Substitute
    \/ EndSubstitute
    \/ CoerceValue
    \/ Return
    \/ ReturnToSubstitute

NextCycle ==
    \/ \E doc \in NestedDocs : Construct(1, doc)
    \/ enable_nested_settings(1)
    \/ \E n \in {<<"a">>, <<"b">>, <<"c">>} : Access(n)
    \/ StepCycle

\* The interpreter runs the access in progress to its end: the program is
\* sequential and nothing else can be scheduled in its place.
SpecNestedFair == InitNested /\ [][NextCycle]_vars /\ WF_vars(StepCycle)

\* The value of setting `name` on the instance, by structural recursion on
\* at most `fuel` levels of reference: [st |-> "bottom"] beyond.
Bottom == [st |-> "bottom"]

RECURSIVE Eval(_, _)
RECURSIVE EvalSubst(_, _)
RECURSIVE EvalPre(_, _, _)

\* Every ${name} of text t replaced by the text of Eval(name).
EvalSubst(t, fuel) ==
    IF ~HasMatch(t) THEN Ok(t)
    ELSE LET m == FirstMatch(t)
             r == Eval(m.name, fuel)
         IN IF r.st # "ok" THEN r
            ELSE LET tl == EvalSubst(m.after, fuel) IN
                 IF tl.st # "ok" THEN tl
                 ELSE Ok(m.before \o ToStr(r.v) \o tl.v)

\* The preprocessors ps applied in order to v.
EvalPre(ps, v, fuel) ==
    IF ps = <<>> THEN Ok(v)
    ELSE IF Head(ps) = "nested"
    THEN LET r == EvalSubst(ToStr(v), fuel) IN
         IF r.st # "ok" THEN r ELSE EvalPre(Tail(ps), StrV(r.v), fuel)
    ELSE EvalPre(Tail(ps), ApplyTransform(Head(ps), v), fuel)

Eval(name, fuel) ==
    IF fuel = 0 THEN Bottom
    ELSE IF ClassAttr(classes, inst.cls, name) = 0
    THEN Raise("AttributeError", <<>>)
    ELSE LET D == descs[ClassAttr(classes, inst.cls, name)]
             w == WorkingValue(D, inst.data)
         IN IF w = None
            THEN Raise("ValueError", <<"missing required config ">> \o D.config_path.s)
            ELSE LET r == EvalPre(D.preprocessors, w, fuel - 1) IN
                 IF r.st # "ok" THEN r
                 ELSE LET c == Coerce(D.setting_type, r.v) IN
                      IF c.st # "ok" THEN c
                      ELSE Ok(ApplyAll(D.postprocessors, c.v))

\* C8: on a class decorated with nested substitution, an access returns the
\* working value with every ${name} replaced by the text of the sibling
\* `name` resolved through its own whole pipeline, transitively.
C8_NestedSubstitution ==
    outcome.st = "ok" => outcome = Eval(cur, RecursionLimit + 1)

\* c = "${b}z", b = "${a}r", a = 5: the access of c has returned after
\* resolving b, and a inside b.
C8_Witness ==
    /\ outcome = Ok(StrV(<<"5", "r", "z">>))
    /\ cur = <<"c">>
    /\ \E i, j \in 1..Len(log) :
          /\ i < j
          /\ log[i] = Event("enter", 2, "")
          /\ log[j] = Event("enter", 1, "")

\* ------------------------------------------------------------------ cycles
\* The names of the ${name} placeholders of a text.
PlaceholderNames(t) ==
    {SubSeq(t, i + 2, WordRunEnd(t, i + 2)) : i \in {j \in 1..Len(t) : MatchAt(t, j)}}

\* The settings that substitution is registered on refer to the names in
\* their working value; other names refer to nothing.
Refs(name) ==
    LET d == ClassAttr(classes, inst.cls, name) IN
    IF d = 0 THEN {}
    ELSE IF WorkingValue(descs[d], inst.data) = None THEN {}
    ELSE IF \A k \in 1..Len(descs[d].preprocessors) :
                descs[d].preprocessors[k] # "nested" THEN {}
    ELSE PlaceholderNames(ToStr(WorkingValue(descs[d], inst.data)))

\* The names reachable from those of S in at most k references.
RECURSIVE ReachWithin(_, _)
ReachWithin(S, k) ==
    IF k = 0 THEN S
    ELSE ReachWithin(S \cup UNION {Refs(n) : n \in S}, k - 1)

Reach(S) == ReachWithin(S, Len(AttrNames) + 1)

\* The reference graph reachable from `name` contains a cycle.
Cyclic(name) == \E m \in Reach({name}) : m \in Reach(Refs(m))

\* Every name reachable from `name` is a setting with a working value.
AllResolve(name) ==
    \A m \in Reach({name}) :
        /\ ClassAttr(classes, inst.cls, m) # 0
        /\ WorkingValue(descs[ClassAttr(classes, inst.cls, m)], inst.data) # None

\* The outermost access has just begun; it has returned or raised.
Started == cur # NoAccess /\ stack # <<>> /\ log = <<>>
Finished == cur # NoAccess /\ outcome.st # "pending"

\* The sibling resolutions the access has entered.
Entered == Cardinality({k \in 1..Len(log) : log[k].ev = "enter"})

\* C10: with nested substitution and references that all name settings with
\* a working value, every access ends; it returns a value when the reference
\* graph reachable from the setting is acyclic; when that graph holds a
\* cycle it returns no value and raises no circular-reference error: it
\* enters sibling resolutions until the interpreter's recursion limit stops
\* it, however high the limit.
C10_NoCycleDetection ==
    /\ Started ~> Finished
    /\ [](Finished /\ AllResolve(cur) =>
            IF Cyclic(cur)
            THEN /\ outcome = Raise("RecursionError", <<>>)
                 /\ Entered >= RecursionLimit - 1
            ELSE outcome.st = "ok")

\* An access is in progress whose reference graph has a cycle, through a
\* document value, and the recursion has reached the limit.
C10_WitnessCyclic ==
    /\ Finished /\ AllResolve(cur) /\ Cyclic(cur)
    /\ inst.data # EmptyMap
    /\ cur = <<"b">>
    /\ Entered >= RecursionLimit - 1

\* ------------------------------------------------------------------ providers
\* must_exist as a keyword argument: "unset" when not given.
MustExist(kw, dflt) == IF kw = "unset" THEN dflt ELSE kw = "true"

\* load_configuration_from_file(file_location, must_exist=False) on the file
\* system fs; the content of a file is what yaml.load returns for it.
load_configuration_from_file(file_location, kw, fs) ==
    LET path == expanduser(PathV(file_location)).s IN
    IF path \notin DOMAIN fs
    THEN IF MustExist(kw, FALSE)
         THEN Raise("ValueError",
                    <<"could not find configuration file at ">> \o path)
         ELSE Ok(None)
    ELSE Ok(fs[path])

\* load_configuration_from_environment_variable(ev_name, must_exist=True)
load_configuration_from_environment_variable(ev_name, kw, e, fs) ==
    IF ev_name \notin DOMAIN e THEN Ok(None)
    ELSE load_configuration_from_file(
            e[ev_name], IF MustExist(kw, TRUE) THEN "true" ELSE "false", fs)

\* load_configuration(location, **kwargs)
load_configuration(location, kw, e, fs) ==
    IF location.kind = "map" THEN Ok(location)
    ELSE IF location.s # <<>> /\ Head(location.s) = "$"
    THEN load_configuration_from_environment_variable(Tail(location.s), kw, e, fs)
    ELSE load_configuration_from_file(location.s, kw, fs)

\* lambda cls: load_configuration(location, **kwargs)
Lambda(location, kw) == [kind |-> "lambda", location |-> location, kw |-> kw]

\* Mutant of chain_providers: the earlier provider is asked first.
ChainProvidersEarlierFirst(func1, func2) ==
    IF func2 = None THEN func1
    ELSE [kind |-> "chained", func1 |-> func2, func2 |-> func1]

\* chain_providers(func1, func2): func1 itself, or the closure `chained`.
chain_providers(func1, func2) ==
    IF func2 = None THEN func1
    ELSE [kind |-> "chained", func1 |-> func1, func2 |-> func2]

\* A call of a provider: what it returns or raises, and the locations whose
\* lambdas were called on the way, in order.
RECURSIVE CallProvider(_, _, _)
CallProvider(p, e, fs) ==
    IF p.kind = "lambda"
    THEN [out |-> load_configuration(p.location, p.kw, e, fs),
          tried |-> <<[location |-> p.location, kw |-> p.kw]>>]
    ELSE LET r1 == CallProvider(p.func1, e, fs) IN
         IF r1.out.st = "raise" \/ r1.out.v # None THEN r1
         ELSE LET r2 == CallProvider(p.func2, e, fs) IN
              [out |-> r2.out, tried |-> r1.tried \o r2.tried]

\* cls.__name__ of class c.
ClassName(c) == <<"C">> \o Digits(c)

NoArgs == <<>>
CouldNotLoad == Raise("ValueError", <<"configuration file could not be loaded">>)

\* Mutant of LoadData: with arguments that yield no document, load falls
\* back to the class's provider.
LoadDataWithFallback(c, args, prov, e, fs) ==
    IF args # NoArgs
    THEN IF load_configuration(args[1], args[2], e, fs) = Ok(None) /\ prov # None
         THEN CallProvider(prov, e, fs)
         ELSE [out |-> load_configuration(args[1], args[2], e, fs), tried |-> <<>>]
    ELSE IF prov = None
    THEN [out |-> Raise("TypeError", ClassName(c) \o <<" has no provider defined">>),
          tried |-> <<>>]
    ELSE CallProvider(prov, e, fs)

\* The first half of Configuration.load: config_data from the arguments or
\* from cls.provider(), or the error raised meanwhile.
LoadData(c, args, prov, e, fs) ==
    IF args # NoArgs
    THEN [out |-> load_configuration(args[1], args[2], e, fs), tried |-> <<>>]
    ELSE IF prov = None
    THEN [out |-> Raise("TypeError", ClassName(c) \o <<" has no provider defined">>),
          tried |-> <<>>]
    ELSE CallProvider(prov, e, fs)

\* Number of providers chained on the class.
MaxProviders == 3

\* @configuration_provider(location, **kwargs) on class 1.
configuration_provider(location, kw) ==
    /\ Idle
    /\ Len(registered) < MaxProviders
    /\ provider' = chain_providers(Lambda(location, kw), provider)
    /\ registered' = Append(registered, [location |-> location, kw |-> kw])
    /\ loaded' = Pending
    /\ UNCHANGED <<inst, resolveVars, schemaVars, accessVars, env, files>>

\* cls.load(*args, **kwargs) on class 1.
Load(args) ==
    /\ Idle
    /\ LET r == LoadData(1, args, provider, env, files) IN
       IF r.out.st = "raise"
       THEN /\ loaded' = [args |-> args, out |-> r.out, tried |-> r.tried]
            /\ UNCHANGED <<inst, accessVars>>
       ELSE IF r.out.v = None
       THEN /\ loaded' = [args |-> args, out |-> CouldNotLoad, tried |-> r.tried]
            /\ UNCHANGED <<inst, accessVars>>
       ELSE /\ inst' = [cls |-> 1,
                        data |-> IF r.out.v = EmptyMap THEN EmptyMap ELSE r.out.v]
            /\ loaded' = [args |-> args, out |-> Ok(inst'), tried |-> r.tried]
            /\ cur' = NoAccess /\ outcome' = Pending /\ log' = <<>>
            /\ accessed' = {} /\ UNCHANGED stack
    /\ UNCHANGED <<resolveVars, schemaVars, provider, registered, env, files>>

\* The environment changes between two calls of load.
SetEnv(name, value) ==
    /\ env' = IF name \in DOMAIN env THEN [env EXCEPT ![name] = value]
              ELSE env @@ (name :> value)
    /\ loaded' = Pending
    /\ UNCHANGED <<inst, resolveVars, schemaVars, accessVars, provider,
                   registered, files>>

UnsetEnv(name) ==
    /\ name \in DOMAIN env
    /\ env' = [n \in DOMAIN env \ {name} |-> env[n]]
    /\ loaded' = Pending
    /\ UNCHANGED <<inst, resolveVars, schemaVars, accessVars, provider,
                   registered, files>>

WriteFile(path, content) ==
    /\ files' = IF path \in DOMAIN files THEN [files EXCEPT ![path] = content]
                ELSE files @@ (path :> content)
    /\ loaded' = Pending
    /\ UNCHANGED <<inst, resolveVars, schemaVars, accessVars, provider,
                   registered, env>>

RemoveFile(path) ==
    /\ path \in DOMAIN files
    /\ files' = [q \in DOMAIN files \ {path} |-> files[q]]
    /\ loaded' = Pending
    /\ UNCHANGED <<inst, resolveVars, schemaVars, accessVars, provider,
                   registered, env>>

\* ------------------------------------------------------------------ loading
EnvVar == <<"E">>
PathP == <<"/", "p">>
PathQ == <<"/", "q">>
DocX(text) == MapV(<<"x">> :> StrV(text))

\* The providers registered on the class: a literal mapping, the file named
\* by $E, the file /p, and the file /p that must exist.
ProviderLocations ==
    { [location |-> DocX(<<"m">>), kw |-> "unset"],
      [location |-> StrV(<<"$">> \o EnvVar), kw |-> "unset"],
      [location |-> StrV(PathP), kw |-> "unset"],
      [location |-> StrV(PathP), kw |-> "true"] }

\* The arguments load is called with: none, or a location and must_exist.
LoadArgs ==
    { NoArgs,
      <<EmptyMap, "unset">>,
      <<StrV(<<"$">> \o EnvVar), "unset">>,
      <<StrV(<<"$">> \o EnvVar), "false">>,
      <<StrV(PathP), "unset">>,
      <<StrV(PathP), "true">> }

\* What a file may hold: an empty YAML document (None) or a mapping.
FileContents == {None, DocX(<<"f">>)}

InitProvider ==
    /\ inst = NoInstance
    /\ config_path = <<>>
    /\ resolved = Pending
    /\ descs = <<>>
    /\ classes = <<[base |-> 0, attrs |-> <<>>]>>
    /\ last = Pending
    /\ stack = <<>> /\ cur = NoAccess /\ outcome = Pending
    /\ log = <<>> /\ accessed = {}
    /\ NoLoading

NextProvider ==
    \/ \E r \in ProviderLocations : configuration_provider(r.location, r.kw)
    \/ \E args \in LoadArgs : Load(args)
    \/ \E v \in {PathP, PathQ} : SetEnv(EnvVar, v)
    \/ UnsetEnv(EnvVar)
    \/ \E content \in FileContents : WriteFile(PathP, content)
    \/ RemoveFile(PathP)

SpecProvider == InitProvider /\ [][NextProvider]_vars

\* The registered providers asked from the k-th back to the first, until one
\* does not answer None: the answer, and the providers asked.
RECURSIVE AskFrom(_, _)
AskFrom(regs, k) ==
    IF k = 0 THEN [out |-> Ok(None), tried |-> <<>>]
    ELSE LET o == load_configuration(regs[k].location, regs[k].kw, env, files) IN
         IF o = Ok(None)
         THEN [out |-> AskFrom(regs, k - 1).out,
               tried |-> <<regs[k]>> \o AskFrom(regs, k - 1).tried]
         ELSE [out |-> o, tried |-> <<regs[k]>>]

IsEnvProvider(r) == r.location.kind = "str" /\ r.location.s = <<"$">> \o EnvVar

\* C3: load() asks the chained providers from the most recently registered
\* to the earliest and stops at the first that does not answer None: its
\* document becomes the container's, or its error propagates and no earlier
\* provider is asked; a provider for $E answers None when E is unset and
\* raises when E names a file that does not exist.
C3_ChainOrder ==
    (loaded # Pending /\ loaded.args = NoArgs /\ registered # <<>>) =>
        LET w == AskFrom(registered, Len(registered)) IN
        /\ loaded.tried = w.tried
        /\ w.out.st = "raise" => loaded.out = w.out
        /\ (w.out.st = "ok" /\ w.out.v # None) =>
                loaded.out = Ok(inst) /\ inst.data = w.out.v
        /\ \A k \in 1..Len(loaded.tried) :
              (IsEnvProvider(loaded.tried[k]) /\ loaded.tried[k].kw = "unset") =>
                 /\ EnvVar \notin DOMAIN env => k < Len(loaded.tried)
                                                \/ loaded.out = CouldNotLoad
                 /\ (EnvVar \in DOMAIN env /\ env[EnvVar] \notin DOMAIN files) =>
                        /\ k = Len(loaded.tried)
                        /\ loaded.out = Raise("ValueError",
                              <<"could not find configuration file at ">>
                              \o env[EnvVar])

\* Three providers are chained; load() asked the latest, for $E with E
\* unset, then the file /p that must exist and does not, and stopped there.
C3_Witness ==
    /\ loaded # Pending /\ loaded.args = NoArgs
    /\ Len(registered) = 3
    /\ Len(loaded.tried) = 2
    /\ IsEnvProvider(loaded.tried[1])
    /\ loaded.out.st = "raise"

\* C4: load returns a container only for a document that is not None; with
\* arguments it asks the dispatcher only, never the class's providers;
\* without arguments it raises the missing-provider error naming the class
\* when none is registered and asks the chain otherwise; None for a document
\* makes it raise "configuration file could not be loaded".
C4_Load ==
    loaded # Pending =>
        /\ loaded.out.st = "ok" =>
              /\ loaded.out.v = inst
              /\ IF loaded.args # NoArgs
                 THEN Ok(inst.data) = load_configuration(
                            loaded.args[1], loaded.args[2], env, files)
                 ELSE Ok(inst.data) = AskFrom(registered, Len(registered)).out
        /\ IF loaded.args # NoArgs
           THEN /\ loaded.tried = <<>>
                /\ LET o == load_configuration(
                                loaded.args[1], loaded.args[2], env, files) IN
                   /\ o.st = "raise" => loaded.out = o
                   /\ o = Ok(None) => loaded.out = CouldNotLoad
                   /\ (o.st = "ok" /\ o.v # None) => loaded.out.st = "ok"
           ELSE IF registered = <<>>
           THEN /\ loaded.tried = <<>>
                /\ loaded.out = Raise("TypeError",
                        ClassName(1) \o <<" has no provider defined">>)
           ELSE /\ loaded.tried # <<>>
                /\ AskFrom(registered, Len(registered)).out = Ok(None) =>
                        loaded.out = CouldNotLoad

\* load was called with a location that yields no document while the class
\* has a provider that would have yielded one.
C4_Witness ==
    /\ loaded # Pending /\ loaded.args # NoArgs
    /\ loaded.out = CouldNotLoad
    /\ registered # <<>>
    /\ AskFrom(registered, Len(registered)).out.st = "ok"
    /\ AskFrom(registered, Len(registered)).out.v # None

====
